---- MODULE Spec2Model ----
(***************************************************************************)
(* BokslQuant: lump-sum versus dollar-cost-averaging back-testing.         *)
(*                                                                         *)
(* The model follows the single-run pipeline                               *)
(*   LumpSumVsDcaBacktester.run_backtest                                   *)
(*     -> Backtester.load_data                                             *)
(*     -> LumpSumStrategy.execute / DollarCostAverageStrategy.execute      *)
(*     -> Backtester.calculate_daily_returns                               *)
(* and the two sweep drivers (ProbabilisticBacktester, run_batch).         *)
(*                                                                         *)
(* Python floats are modelled as exact rationals <<n, d>> with d > 0 in    *)
(* lowest terms; rounding of IEEE doubles is not modelled.                 *)
(***************************************************************************)
EXTENDS Integers, Sequences, FiniteSets, TLC

(***************************************************************************)
(* Bounds of the model.                                                    *)
(***************************************************************************)
MaxDays == 3
MaxPrice == 2
MaxDca == 3
MaxCalls == 3
MaxTrades == 3
MaxReturns == 4
SeriesRows == 2

(***************************************************************************)
(* Program constants.                                                      *)
(***************************************************************************)
InitialCapital == 10000000
MonthsPerYear == 12

(***************************************************************************)
(* Exact rational arithmetic standing for Python float arithmetic.         *)
(***************************************************************************)
Abs(x) == IF x < 0 THEN -x ELSE x

RECURSIVE GCD(_, _)
GCD(a, b) == IF b = 0 THEN a ELSE GCD(b, a % b)

Norm(n, d) ==
  LET g == GCD(Abs(n), d) IN <<n \div g, d \div g>>

Q(n) == <<n, 1>>

Zero == Q(0)

QAdd(a, b) ==
  LET g == GCD(a[2], b[2])
  IN Norm(a[1] * (b[2] \div g) + b[1] * (a[2] \div g), (a[2] \div g) * b[2])

QNeg(a) == <<-a[1], a[2]>>

QSub(a, b) == QAdd(a, QNeg(b))

QMul(a, b) ==
  LET g1 == GCD(Abs(a[1]), b[2])
      g2 == GCD(Abs(b[1]), a[2])
  IN IF a[1] = 0 \/ b[1] = 0 THEN Zero
     ELSE <<(a[1] \div g1) * (b[1] \div g2), (a[2] \div g2) * (b[2] \div g1)>>

QInv(a) == IF a[1] < 0 THEN <<-a[2], -a[1]>> ELSE <<a[2], a[1]>>

QDiv(a, b) == QMul(a, QInv(b))

QLt(a, b) == a[1] * b[2] < b[1] * a[2]

QLe(a, b) == a[1] * b[2] <= b[1] * a[2]

QMax(a, b) == IF QLt(a, b) THEN b ELSE a

(***************************************************************************)
(* Dates.  A datetime.date is a record; its str() form 'YYYY-MM-DD' is the *)
(* triple of its fields, and pd.to_datetime(...).date() parses it back.    *)
(***************************************************************************)
MkDate(y, m, d) == [year |-> y, month |-> m, day |-> d]

DateLt(a, b) ==
  \/ a.year < b.year
  \/ a.year = b.year /\ a.month < b.month
  \/ a.year = b.year /\ a.month = b.month /\ a.day < b.day

DateLe(a, b) == a = b \/ DateLt(a, b)

DateStr(dt) == <<dt.year, dt.month, dt.day>>

ToDate(s) == MkDate(s[1], s[2], s[3])

AddYears(dt, n) == MkDate(dt.year + n, dt.month, dt.day)

(***************************************************************************)
(* The universe of price files: trading days drawn from December of the    *)
(* base year to February of the next, so that a start in December rolls    *)
(* the year.                                                               *)
(***************************************************************************)
BaseYear == 2000

CandidateDates ==
  { MkDate(BaseYear, 12, 1), MkDate(BaseYear, 12, 2),
    MkDate(BaseYear + 1, 1, 1), MkDate(BaseYear + 1, 1, 2),
    MkDate(BaseYear + 1, 2, 1), MkDate(BaseYear + 1, 2, 2) }

Prices == 1..MaxPrice

\* one CSV file: a set of rows with pairwise distinct dates
CsvFiles ==
  UNION { [ds -> Prices] : ds \in { s \in SUBSET CandidateDates : Cardinality(s) <= MaxDays } }

StartMonths == { <<BaseYear, 12>>, <<BaseYear + 1, 1>> }

\* the header of a well-formed price file
AllColumns == { "Date", "Open", "High", "Low", "Close", "Volume" }

\* headers: the full one, and those lacking one column
Headers == { AllColumns } \cup { AllColumns \ {c} : c \in AllColumns }

VARIABLES
  csv,            \* the symbol's data file: date -> Close
  columns,        \* the column names in the header of the data file
  config,         \* LumpSumVsDcaConfig
  pc,             \* position inside run_backtest
  strategy_type,  \* argument of the current run_backtest call
  data,           \* DataFrame returned by load_data
  strategy,       \* the strategy object created by the factory
  daily_returns,  \* DataFrame returned by calculate_daily_returns
  results,        \* results returned by the run_backtest calls so far
  raised,         \* number of run_backtest calls that raised
  metrics,        \* what calculate_metrics returned for the results so far
  error,          \* the exception the last run_backtest call raised, if any
  driver,         \* which sweep runs: ProbabilisticBacktester or run_batch
  sweep_config,   \* ScenarioConfig / BATCH_CONFIG
  price_data,     \* DataFrame handed to run_all_scenarios
  sweep_pc,       \* position inside the sweep
  scenario_list,  \* generate_scenarios() / test_periods
  sweep_idx,      \* loop index into scenario_list
  scenarios,      \* self.scenarios / results of run_batch
  successful_scenarios,
  failed_scenarios,
  report,         \* the summary line printed when the sweep ends
  current_date,   \* loop variable of the scenario generation
  summary,        \* the dictionary get_summary_statistics returned
  returns,        \* result.returns handed to _calculate_risk_metrics
  annualized_return,  \* the annualized return handed to _calculate_risk_metrics
  risk            \* the dictionary _calculate_risk_metrics returned

sweepVars == <<driver, sweep_config, price_data, sweep_pc, scenario_list, sweep_idx,
               scenarios, successful_scenarios, failed_scenarios, report, current_date,
               summary>>

riskVars == <<returns, annualized_return, risk>>

vars == <<csv, columns, config, pc, strategy_type, data, strategy, daily_returns, results, raised,
          metrics, error,
          driver, sweep_config, price_data, sweep_pc, scenario_list, sweep_idx,
          scenarios, successful_scenarios, failed_scenarios, report, current_date,
          summary, returns, annualized_return, risk>>


(***************************************************************************)
(* Backtester.load_data: read the file, then data.sort_values('Date').     *)
(***************************************************************************)
RECURSIVE SortByDate(_)
SortByDate(rows) ==
  IF rows = {} THEN <<>>
  ELSE LET r == CHOOSE x \in rows : \A o \in rows : DateLe(x.Date, o.Date)
       IN <<r>> \o SortByDate(rows \ {r})

load_data(file) ==
  SortByDate({ [Date |-> d, Close |-> Q(file[d])] : d \in DOMAIN file })

(***************************************************************************)
(* BaseStrategy: __init__ and add_trade.                                   *)
(***************************************************************************)
NewStrategy(kind) ==
  [ kind |-> kind,
    trades |-> <<>>,
    portfolio |-> [total_invested |-> Zero, total_shares |-> Zero, average_price |-> Zero] ]

\* add_trade without the update of portfolio['average_price']
add_trade_stale_average(s, date, price, amount, shares) ==
  [ s EXCEPT
      !.trades = Append(@, [date |-> date, price |-> price, amount |-> amount, shares |-> shares]),
      !.portfolio = [ total_invested |-> QAdd(s.portfolio.total_invested, amount),
                      total_shares |-> QAdd(s.portfolio.total_shares, shares),
                      average_price |-> @.average_price ] ]

add_trade(s, date, price, amount, shares) ==
  LET inv == QAdd(s.portfolio.total_invested, amount)
      sh  == QAdd(s.portfolio.total_shares, shares)
  IN [ s EXCEPT
         !.trades = Append(@, [date |-> date, price |-> price, amount |-> amount, shares |-> shares]),
         !.portfolio = [ total_invested |-> inv,
                         total_shares |-> sh,
                         average_price |-> IF QLt(Zero, sh) THEN QDiv(inv, sh) ELSE @.average_price ] ]

\* a factory that hands back the strategy object it built before
reuse_strategy(kind, old) == IF old.kind = kind THEN old ELSE NewStrategy(kind)

\* LumpSumVsDcaStrategyFactory.create_strategy: always a new object
create_strategy(kind, old) == NewStrategy(kind)

(***************************************************************************)
(* The strategies.                                                         *)
(***************************************************************************)
\* data[(data['year'] == y) & (data['month'] == m)]
MonthData(rows, y, m) ==
  SelectSeq(rows, LAMBDA r : r.Date.year = y /\ r.Date.month = m)

\* month_data.iloc[-1]
LastTradeDay(month_data) == month_data[Len(month_data)]

\* month_data.iloc[0]
FirstTradeDay(month_data) == month_data[1]

\* the capital left undivided
UndividedAmount(cfg) == Q(cfg.initial_capital)

\* LumpSumVsDcaConfig.get_dca_monthly_amount
get_dca_monthly_amount(cfg) == QDiv(Q(cfg.initial_capital), Q(cfg.dca_months))

\* the month wraps but the year is not advanced
NextMonthSameYear(y, m) ==
  IF m + 1 > MonthsPerYear THEN <<y, 1>> ELSE <<y, m + 1>>

\* a loop that never leaves the start month
StayInMonth(y, m) == <<y, m>>

\* current_month += 1; if current_month > 12: current_month = 1; current_year += 1
NextMonth(y, m) ==
  IF m + 1 > MonthsPerYear THEN <<y + 1, 1>> ELSE <<y, m + 1>>

\* LumpSumStrategy.execute past the empty check
LumpSumExecute(s, rows, cfg) ==
  LET first_trade_day == FirstTradeDay(MonthData(rows, cfg.start_year, cfg.start_month))
      investment_price == first_trade_day.Close
      investment_amount == Q(cfg.initial_capital)
  IN add_trade(s, DateStr(first_trade_day.Date), investment_price, investment_amount,
               QDiv(investment_amount, investment_price))

\* the body of "for i in range(self.config.dca_months)" from iteration i on
RECURSIVE DcaLoop(_, _, _, _, _, _)
DcaLoop(s, rows, cfg, i, current_year, current_month) ==
  IF i >= cfg.dca_months THEN s
  ELSE LET month_data == MonthData(rows, current_year, current_month)
           monthly_amount == get_dca_monthly_amount(cfg)
           s2 == IF month_data # <<>>
                 THEN LET first_trade_day == FirstTradeDay(month_data)
                      IN add_trade(s, DateStr(first_trade_day.Date), first_trade_day.Close,
                                   monthly_amount, QDiv(monthly_amount, first_trade_day.Close))
                 ELSE s
           nm == NextMonth(current_year, current_month)
       IN DcaLoop(s2, rows, cfg, i + 1, nm[1], nm[2])

\* DollarCostAverageStrategy.execute
DcaExecute(s, rows, cfg) == DcaLoop(s, rows, cfg, 0, cfg.start_year, cfg.start_month)

(***************************************************************************)
(* Backtester.get_investment_period_data and calculate_daily_returns.      *)
(***************************************************************************)
\* a window that leaves out the row dated start_date itself
PeriodAfterStart(rows, cfg) ==
  SelectSeq(rows, LAMBDA r :
    /\ DateLt(MkDate(cfg.start_year, cfg.start_month, 1), r.Date)
    /\ DateLt(r.Date, AddYears(MkDate(cfg.start_year, cfg.start_month, 1),
                               cfg.investment_period_years)))

get_investment_period_data(rows, cfg) ==
  LET start_date == MkDate(cfg.start_year, cfg.start_month, 1)
      end_date == AddYears(start_date, cfg.investment_period_years)
  IN SelectSeq(rows, LAMBDA r : DateLe(start_date, r.Date) /\ DateLt(r.Date, end_date))

\* trade_schedule[trade_date] = trade, a later trade replacing an earlier one
TradeSchedule(trades) ==
  [ d \in { ToDate(trades[k].date) : k \in 1..Len(trades) } |->
      LET last == CHOOSE k \in 1..Len(trades) :
                    /\ ToDate(trades[k].date) = d
                    /\ \A j \in 1..Len(trades) : ToDate(trades[j].date) = d => j <= k
      IN trades[last] ]

\* the valuation that prices a position of no shares at the day's close
ValuationRowPricedEmpty(row, invested, shares) ==
  [ date |-> row.Date, price |-> row.Close,
    invested_amount |-> invested, shares |-> shares,
    average_price |-> IF QLt(Zero, shares) THEN QDiv(invested, shares) ELSE Zero,
    current_value |-> IF QLt(Zero, shares) THEN QMul(shares, row.Close) ELSE row.Close,
    total_return |-> IF QLt(Zero, shares)
                     THEN QDiv(QSub(QMul(shares, row.Close), invested), invested)
                     ELSE Zero,
    daily_return |-> IF QLt(Zero, shares)
                     THEN QDiv(QSub(row.Close, QDiv(invested, shares)), QDiv(invested, shares))
                     ELSE Zero ]

\* one iteration of "for idx, row in period_data.iterrows()"
ValuationRow(row, invested, shares) ==
  IF QLt(Zero, shares)
  THEN LET current_value == QMul(shares, row.Close)
           average_price == QDiv(invested, shares)
       IN [ date |-> row.Date, price |-> row.Close,
            invested_amount |-> invested, shares |-> shares,
            average_price |-> average_price,
            current_value |-> current_value,
            total_return |-> QDiv(QSub(current_value, invested), invested),
            daily_return |-> QDiv(QSub(row.Close, average_price), average_price) ]
  ELSE [ date |-> row.Date, price |-> row.Close,
         invested_amount |-> invested, shares |-> shares,
         average_price |-> Zero, current_value |-> Zero,
         total_return |-> Zero, daily_return |-> Zero ]

\* a loop in which a trade replaces the running totals
RECURSIVE ValuationLoopReplacing(_, _, _, _, _)
ValuationLoopReplacing(period, schedule, k, invested, shares) ==
  IF k > Len(period) THEN <<>>
  ELSE LET row == period[k]
           hit == row.Date \in DOMAIN schedule
           inv2 == IF hit THEN schedule[row.Date].amount ELSE invested
           sh2 == IF hit THEN schedule[row.Date].shares ELSE shares
       IN <<ValuationRow(row, inv2, sh2)>>
            \o ValuationLoopReplacing(period, schedule, k + 1, inv2, sh2)

\* for idx, row in period_data.iterrows(), from row k on
RECURSIVE ValuationLoop(_, _, _, _, _)
ValuationLoop(period, schedule, k, invested, shares) ==
  IF k > Len(period) THEN <<>>
  ELSE LET row == period[k]
           hit == row.Date \in DOMAIN schedule
           inv2 == IF hit THEN QAdd(invested, schedule[row.Date].amount) ELSE invested
           sh2 == IF hit THEN QAdd(shares, schedule[row.Date].shares) ELSE shares
       IN <<ValuationRow(row, inv2, sh2)>> \o ValuationLoop(period, schedule, k + 1, inv2, sh2)

\* the current return taken for the running maximum
CurrentReturn(rs, k) == rs[k].total_return

\* df['total_return'].cummax() at row k
RECURSIVE CumMax(_, _)
CumMax(rs, k) ==
  IF k = 1 THEN rs[1].total_return
  ELSE QMax(CumMax(rs, k - 1), rs[k].total_return)

\* the drawdown measured from the return up to the peak
DrawdownFlipped(total_return, peak_return) ==
  IF QLt(Zero, peak_return)
  THEN QDiv(QSub(peak_return, total_return), QAdd(Q(1), peak_return))
  ELSE QSub(peak_return, total_return)

\* the drawdown as a plain difference on both branches
DrawdownUnscaled(total_return, peak_return) == QSub(total_return, peak_return)

\* the lambda of df.apply(..., axis=1)
Drawdown(total_return, peak_return) ==
  IF QLt(Zero, peak_return)
  THEN QDiv(QSub(total_return, peak_return), QAdd(Q(1), peak_return))
  ELSE QSub(total_return, peak_return)

calculate_daily_returns(rows, strategy_result, cfg) ==
  LET period_data == get_investment_period_data(rows, cfg)
      rs == ValuationLoop(period_data, TradeSchedule(strategy_result.trades), 1, Zero, Zero)
  IN [ k \in 1..Len(rs) |->
         LET peak == CumMax(rs, k)
         IN [ date |-> rs[k].date, price |-> rs[k].price,
              invested_amount |-> rs[k].invested_amount, shares |-> rs[k].shares,
              average_price |-> rs[k].average_price,
              current_value |-> rs[k].current_value,
              total_return |-> rs[k].total_return,
              daily_return |-> rs[k].daily_return,
              peak_return |-> peak,
              drawdown |-> Drawdown(rs[k].total_return, peak) ] ]

(***************************************************************************)
(* PerformanceAnalyzer.calculate_metrics.  numpy division 0/0 gives nan;   *)
(* a power with a fractional exponent is kept as its base and day count;   *)
(* sharpe_ratio and volatility (square roots) are not represented.         *)
(***************************************************************************)
NaN == <<0, 0>>

NumDiv(a, b) == IF a = NaN \/ b = NaN \/ b = Zero THEN NaN ELSE QDiv(a, b)

NumSub(a, b) == IF a = NaN \/ b = NaN THEN NaN ELSE QSub(a, b)

\* days / 365.25
DaysPerYear == <<1461, 4>>

\* the literal 0 of "... if years > 0 else 0"
ZeroCagr == [ratio |-> Q(1), days |-> 0]

\* (final_value / total_invested) ** (1/years) - 1 if years > 0 else 0, years = days / 365.25;
\* the power is kept as its base and its day count
Cagr(final_value, total_invested, days) ==
  IF QLt(Zero, QDiv(Q(days), DaysPerYear))
  THEN [ratio |-> NumDiv(final_value, total_invested), days |-> days]
  ELSE ZeroCagr

\* daily_returns['drawdown'].min()
RECURSIVE MinDrawdown(_, _)
MinDrawdown(rs, k) ==
  IF k = 1 THEN rs[1].drawdown
  ELSE LET m == MinDrawdown(rs, k - 1)
       IN IF QLt(rs[k].drawdown, m) THEN rs[k].drawdown ELSE m

\* PerformanceAnalyzer._calculate_mdd
calculate_mdd(rs) ==
  IF rs = <<>> THEN Zero
  ELSE LET m == MinDrawdown(rs, Len(rs)) IN <<Abs(m[1]), m[2]>>

\* a metrics dictionary whose ratios are those of an empty frame, 0 / 0
undefined_metrics ==
  [ final_return |-> NaN, cagr |-> [ratio |-> NaN, days |-> 0], mdd |-> Zero,
    sharpe_ratio |-> Zero, volatility |-> Zero, win_rate |-> Zero,
    total_invested |-> Zero, final_value |-> Zero,
    average_price |-> Zero, total_shares |-> Zero,
    investment_period_days |-> 0, investment_period_years |-> Zero ]

empty_metrics ==
  [ final_return |-> Zero, cagr |-> ZeroCagr, mdd |-> Zero,
    sharpe_ratio |-> Zero, volatility |-> Zero, win_rate |-> Zero,
    total_invested |-> Zero, final_value |-> Zero,
    average_price |-> Zero, total_shares |-> Zero,
    investment_period_days |-> 0, investment_period_years |-> Zero ]

\* (daily_changes > 0).sum() of daily_returns['total_return'].diff().dropna()
WinDays(rs) ==
  Cardinality({ k \in 2..Len(rs) : QLt(rs[k - 1].total_return, rs[k].total_return) })

\* PerformanceAnalyzer._calculate_win_rate
calculate_win_rate(rs) ==
  IF Len(rs) < 2 THEN Zero ELSE Norm(WinDays(rs), Len(rs) - 1)

\* the last row of a frame: iloc[-1]
LastRow(rs) == rs[Len(rs)]

\* the final value over the invested amount, the investment not taken off
gross_return(final_value, total_invested) == NumDiv(final_value, total_invested)

\* (final_value - total_invested) / total_invested
total_return(final_value, total_invested) ==
  NumDiv(QSub(final_value, total_invested), total_invested)

MetricsOf(rs, portfolio) ==
  IF rs = <<>> THEN empty_metrics
  ELSE [ final_return |-> total_return(LastRow(rs).current_value, LastRow(rs).invested_amount),
         cagr |-> Cagr(LastRow(rs).current_value, LastRow(rs).invested_amount, Len(rs)),
         mdd |-> calculate_mdd(rs),
         win_rate |-> calculate_win_rate(rs),
         total_invested |-> LastRow(rs).invested_amount,
         final_value |-> LastRow(rs).current_value,
         average_price |-> portfolio.average_price,
         total_shares |-> portfolio.total_shares,
         investment_period_days |-> Len(rs),
         investment_period_years |-> QDiv(Q(Len(rs)), DaysPerYear) ]

calculate_metrics(backtest_result) ==
  MetricsOf(backtest_result.daily_returns, backtest_result.portfolio)

(***************************************************************************)
(* LumpSumVsDcaBacktester.run_backtest, one action per statement.          *)
(***************************************************************************)
NoStrategy == [kind |-> "none", trades |-> <<>>,
               portfolio |-> [total_invested |-> Zero, total_shares |-> Zero, average_price |-> Zero]]

Configs ==
  [ start_year : {BaseYear, BaseYear + 1},
    start_month : {1, 12},
    investment_period_years : {1},
    dca_months : 1..MaxDca,
    initial_capital : {InitialCapital} ]

\* no run_backtest call is in progress
RunIdle ==
  /\ pc = "idle"
  /\ strategy_type = "none"
  /\ data = <<>>
  /\ strategy = NoStrategy
  /\ daily_returns = <<>>
  /\ results = <<>>
  /\ raised = 0
  /\ metrics = <<>>
  /\ error = "none"

\* no sweep is in progress
SweepIdle ==
  /\ driver = "none"
  /\ sweep_config = <<>>
  /\ price_data = <<>>
  /\ sweep_pc = "idle"
  /\ scenario_list = <<>>
  /\ sweep_idx = 0
  /\ scenarios = <<>>
  /\ successful_scenarios = 0
  /\ failed_scenarios = 0
  /\ report = <<>>
  /\ current_date = <<>>
  /\ summary = <<>>

\* no risk metrics are being computed
RiskIdle ==
  /\ returns = <<>>
  /\ annualized_return = Zero
  /\ risk = <<>>

Init ==
  /\ RiskIdle
  /\ csv \in CsvFiles
  /\ columns \in Headers
  /\ config \in { c \in Configs : <<c.start_year, c.start_month>> \in StartMonths }
  /\ RunIdle
  /\ SweepIdle

\* the months "for i in range(self.config.dca_months)" walks through
RECURSIVE DcaMonth(_, _)
DcaMonth(cfg, i) ==
  IF i = 0 THEN <<cfg.start_year, cfg.start_month>>
  ELSE NextMonth(DcaMonth(cfg, i - 1)[1], DcaMonth(cfg, i - 1)[2])

\* some month of the schedule has a trading day, so first_trade_day['Close'] is read
DcaReadsClose(rows, cfg) ==
  \E i \in 0..(cfg.dca_months - 1) :
    MonthData(rows, DcaMonth(cfg, i)[1], DcaMonth(cfg, i)[2]) # <<>>

\* run_backtest(symbol, strategy_type): data = self.load_data(symbol)
LoadData(kind) ==
  /\ pc = "idle"
  /\ Len(results) + raised < MaxCalls
  /\ "Date" \in columns
  /\ strategy_type' = kind
  /\ data' = load_data(csv)
  /\ daily_returns' = <<>>
  /\ error' = "none"
  /\ pc' = "loaded"
  /\ UNCHANGED <<csv, columns, config, strategy, results, raised>>
  /\ UNCHANGED <<metrics, sweepVars, riskVars>>

\* load_data: data['Date'] on a file without that column raises KeyError
LoadDataKeyError(kind) ==
  /\ pc = "idle"
  /\ Len(results) + raised < MaxCalls
  /\ "Date" \notin columns
  /\ strategy_type' = kind
  /\ raised' = raised + 1
  /\ error' = "KeyError"
  /\ UNCHANGED <<csv, columns, config, pc, data, strategy, daily_returns, results>>
  /\ UNCHANGED <<metrics, sweepVars, riskVars>>

\* strategy = LumpSumVsDcaStrategyFactory.create_strategy(strategy_type, self.config)
CreateStrategy ==
  /\ pc = "loaded"
  /\ strategy' = create_strategy(strategy_type, strategy)
  /\ pc' = "created"
  /\ UNCHANGED <<csv, columns, config, strategy_type, data, daily_returns, results, raised, error>>
  /\ UNCHANGED <<metrics, sweepVars, riskVars>>

\* strategy.execute(data) of LumpSumStrategy, the trade is recorded
ExecuteLumpSum ==
  /\ pc = "created"
  /\ strategy.kind = "lump_sum"
  /\ MonthData(data, config.start_year, config.start_month) # <<>>
  /\ "Close" \in columns
  /\ strategy' = LumpSumExecute(strategy, data, config)
  /\ pc' = "executed"
  /\ UNCHANGED <<csv, columns, config, strategy_type, data, daily_returns, results, raised, error>>
  /\ UNCHANGED <<metrics, sweepVars, riskVars>>

\* strategy.execute(data) of LumpSumStrategy that skips an empty start month silently
ExecuteLumpSumSkip ==
  /\ pc = "created"
  /\ strategy.kind = "lump_sum"
  /\ MonthData(data, config.start_year, config.start_month) = <<>>
  /\ pc' = "executed"
  /\ UNCHANGED <<csv, columns, config, strategy_type, data, strategy, daily_returns, results,
                 raised, error>>
  /\ UNCHANGED <<metrics, sweepVars, riskVars>>

\* strategy.execute(data) of LumpSumStrategy, start_data.empty: raise ValueError
ExecuteLumpSumRaise ==
  /\ pc = "created"
  /\ strategy.kind = "lump_sum"
  /\ MonthData(data, config.start_year, config.start_month) = <<>>
  /\ raised' = raised + 1
  /\ error' = "ValueError"
  /\ pc' = "idle"
  /\ UNCHANGED <<csv, columns, config, strategy_type, data, strategy, daily_returns, results>>
  /\ UNCHANGED <<metrics, sweepVars, riskVars>>

\* strategy.execute(data): first_trade_day['Close'] on a file without that column
ExecuteKeyError ==
  /\ pc = "created"
  /\ "Close" \notin columns
  /\ IF strategy.kind = "lump_sum"
     THEN MonthData(data, config.start_year, config.start_month) # <<>>
     ELSE DcaReadsClose(data, config)
  /\ raised' = raised + 1
  /\ error' = "KeyError"
  /\ pc' = "idle"
  /\ UNCHANGED <<csv, columns, config, strategy_type, data, strategy, daily_returns, results>>
  /\ UNCHANGED <<metrics, sweepVars, riskVars>>

\* strategy.execute(data) of DollarCostAverageStrategy
ExecuteDca ==
  /\ pc = "created"
  /\ strategy.kind = "dca"
  /\ "Close" \in columns \/ ~DcaReadsClose(data, config)
  /\ strategy' = DcaExecute(strategy, data, config)
  /\ pc' = "executed"
  /\ UNCHANGED <<csv, columns, config, strategy_type, data, daily_returns, results, raised, error>>
  /\ UNCHANGED <<metrics, sweepVars, riskVars>>

\* daily_returns = self.calculate_daily_returns(data, strategy_result)
CalculateDailyReturns ==
  /\ pc = "executed"
  /\ "Close" \in columns \/ get_investment_period_data(data, config) = <<>>
  /\ daily_returns' = calculate_daily_returns(data, strategy, config)
  /\ pc' = "valued"
  /\ UNCHANGED <<csv, columns, config, strategy_type, data, strategy, results, raised, error>>
  /\ UNCHANGED <<metrics, sweepVars, riskVars>>

\* calculate_daily_returns: row['Close'] on a file without that column
CalculateDailyReturnsKeyError ==
  /\ pc = "executed"
  /\ "Close" \notin columns
  /\ get_investment_period_data(data, config) # <<>>
  /\ raised' = raised + 1
  /\ error' = "KeyError"
  /\ pc' = "idle"
  /\ UNCHANGED <<csv, columns, config, strategy_type, data, strategy, daily_returns, results>>
  /\ UNCHANGED <<metrics, sweepVars, riskVars>>

\* return result
ReturnResult ==
  /\ pc = "valued"
  /\ results' = Append(results, [ strategy_type |-> strategy_type,
                                  trades |-> strategy.trades,
                                  portfolio |-> strategy.portfolio,
                                  daily_returns |-> daily_returns ])
  /\ pc' = "returned"
  /\ UNCHANGED <<csv, columns, config, strategy_type, data, strategy, daily_returns, raised, error>>
  /\ UNCHANGED <<metrics, sweepVars, riskVars>>

\* the caller hands the result to analyzer.calculate_metrics(result)
CalculateMetrics ==
  /\ pc = "returned"
  /\ metrics' = Append(metrics, calculate_metrics(results[Len(results)]))
  /\ pc' = "idle"
  /\ UNCHANGED <<csv, columns, config, strategy_type, data, strategy, daily_returns,
                 results, raised, error>>
  /\ UNCHANGED <<sweepVars, riskVars>>

Next ==
  \/ \E kind \in {"lump_sum", "dca"} : LoadData(kind)
  \/ \E kind \in {"lump_sum", "dca"} : LoadDataKeyError(kind)
  \/ CreateStrategy
  \/ ExecuteLumpSum
  \/ ExecuteLumpSumRaise
  \/ ExecuteKeyError
  \/ ExecuteDca
  \/ CalculateDailyReturns
  \/ CalculateDailyReturnsKeyError
  \/ ReturnResult
  \/ CalculateMetrics

Spec == Init /\ [][Next]_vars


(***************************************************************************)
(* Claims about the single run.                                            *)
(***************************************************************************)

\* C1: a LumpSum run on a fresh strategy, when the start month has a trading
\* day, leaves a ledger of exactly one trade: dated the first trading day of
\* the start month, priced at that day's Close, amount = initial_capital and
\* shares = amount / price.
C1_LumpSumOneTrade ==
  (pc = "executed" /\ strategy.kind = "lump_sum") =>
    LET ds == { d \in DOMAIN csv : d.year = config.start_year /\ d.month = config.start_month }
        first == CHOOSE d \in ds : \A o \in ds : DateLe(d, o)
        t == strategy.trades[1]
    IN /\ ds # {}
       /\ Len(strategy.trades) = 1
       /\ t.date = DateStr(first)
       /\ t.price = Q(csv[first])
       /\ t.amount = Q(config.initial_capital)
       /\ QMul(t.shares, t.price) = t.amount

\* the start month holds two trading days with different closes and the
\* lump-sum trade has been recorded
C1_Witness ==
  /\ pc = "executed"
  /\ strategy.kind = "lump_sum"
  /\ \E d1, d2 \in DOMAIN csv :
       /\ d1.year = config.start_year /\ d1.month = config.start_month
       /\ d2.year = config.start_year /\ d2.month = config.start_month
       /\ DateLt(d1, d2)
       /\ csv[d1] # csv[d2]

\* C2: in a DCA run on a fresh strategy every trade has
\* amount = initial_capital / dca_months and shares = amount / price, and the
\* amounts add up to at most initial_capital, with equality exactly when every
\* installment month had a trading day.
C2_DcaAmounts ==
  (pc = "executed" /\ strategy.kind = "dca") =>
    LET ts == strategy.trades
        cap == Q(config.initial_capital)
        base == config.start_year * MonthsPerYear + config.start_month - 1
        hasData(i) == \E d \in DOMAIN csv :
                        d.year * MonthsPerYear + d.month - 1 = base + i
        noSkip == \A i \in 0..(config.dca_months - 1) : hasData(i)
    IN /\ \A k \in 1..Len(ts) :
            /\ QMul(ts[k].amount, Q(config.dca_months)) = cap
            /\ QMul(ts[k].shares, ts[k].price) = ts[k].amount
       /\ strategy.portfolio.total_invested = QMul(Q(Len(ts)), QDiv(cap, Q(config.dca_months)))
       /\ QLe(strategy.portfolio.total_invested, cap)
       /\ (strategy.portfolio.total_invested = cap) <=> noSkip

\* a DCA run of at least two installments of which one was skipped
C2_Witness ==
  /\ pc = "executed"
  /\ strategy.kind = "dca"
  /\ Len(strategy.trades) >= 1
  /\ Len(strategy.trades) < config.dca_months
  /\ QLt(strategy.portfolio.total_invested, Q(config.initial_capital))

\* C3: DCA installment i targets calendar month start_month + i, rolling the
\* year after December; a target month with data gives one trade at its first
\* trading day, a target month without data gives no trade and no shift; the
\* ledger holds one trade per target month with data, in increasing date order.
C3_DcaSchedule ==
  (pc = "executed" /\ strategy.kind = "dca") =>
    LET ts == strategy.trades
        base == config.start_year * MonthsPerYear + config.start_month - 1
        monthOf(d) == d.year * MonthsPerYear + d.month - 1
        daysOf(i) == { d \in DOMAIN csv : monthOf(d) = base + i }
        present == { i \in 0..(config.dca_months - 1) : daysOf(i) # {} }
        \* the k-th target month that has data
        nth(k) == CHOOSE i \in present : Cardinality({ j \in present : j < i }) = k - 1
    IN /\ Len(ts) = Cardinality(present)
       /\ \A k \in 1..Len(ts) :
            LET first == CHOOSE d \in daysOf(nth(k)) : \A o \in daysOf(nth(k)) : DateLe(d, o)
            IN /\ ts[k].date = DateStr(first)
               /\ ts[k].price = Q(csv[first])
       /\ \A k \in 1..(Len(ts) - 1) : DateLt(ToDate(ts[k].date), ToDate(ts[k + 1].date))

\* a DCA run from December whose January installment has no data while the
\* December and February installments were made
C3_Witness ==
  /\ pc = "executed"
  /\ strategy.kind = "dca"
  /\ config.start_month = 12
  /\ config.dca_months = 3
  /\ Len(strategy.trades) = 2
  /\ ToDate(strategy.trades[1].date).month = 12
  /\ ToDate(strategy.trades[2].date).month = 2
  /\ ToDate(strategy.trades[2].date).year = config.start_year + 1

\* C4: every daily valuation record has drawdown <= 0, for both strategies.
C4_DrawdownNonPositive ==
  \A k \in 1..Len(daily_returns) : QLe(daily_returns[k].drawdown, Zero)

\* a DCA valuation holding a record strictly below its peak
C4_Witness ==
  /\ pc = "valued"
  /\ strategy.kind = "dca"
  /\ \E k \in 1..Len(daily_returns) : QLt(daily_returns[k].drawdown, Zero)

\* C5: for every valuation record, peak_return > 0 gives
\* drawdown = (total_return - peak_return) / (1 + peak_return), peak_return <= 0
\* gives drawdown = total_return - peak_return, and drawdown = 0 whenever
\* total_return = peak_return.
C5_DrawdownFormula ==
  \A k \in 1..Len(daily_returns) :
    LET r == daily_returns[k]
        diff == QSub(r.total_return, r.peak_return)
    IN /\ QLt(Zero, r.peak_return) => QMul(r.drawdown, QAdd(Q(1), r.peak_return)) = diff
       /\ QLe(r.peak_return, Zero) => r.drawdown = diff
       /\ r.total_return = r.peak_return => r.drawdown = Zero

\* a record below a positive peak, where the two branches differ
C5_Witness ==
  /\ pc = "valued"
  /\ \E k \in 1..Len(daily_returns) :
       /\ QLt(Zero, daily_returns[k].peak_return)
       /\ QLt(daily_returns[k].total_return, daily_returns[k].peak_return)

\* C6: along the date-ordered records peak_return never decreases and is the
\* maximum of total_return over the records up to and including the current one.
C6_PeakRunningMax ==
  \A k \in 1..Len(daily_returns) :
    /\ k > 1 => /\ QLe(daily_returns[k - 1].peak_return, daily_returns[k].peak_return)
                /\ DateLt(daily_returns[k - 1].date, daily_returns[k].date)
    /\ \A j \in 1..k : QLe(daily_returns[j].total_return, daily_returns[k].peak_return)
    /\ \E j \in 1..k : daily_returns[j].total_return = daily_returns[k].peak_return

\* a record whose return lies below an earlier peak
C6_Witness ==
  /\ pc = "valued"
  /\ \E k \in 2..Len(daily_returns) :
       /\ QLt(daily_returns[k].total_return, daily_returns[k].peak_return)
       /\ daily_returns[k - 1].total_return = daily_returns[k].peak_return

\* C7: two run_backtest calls with the same price file, configuration and
\* strategy type return identical trade ledgers and portfolio totals; nothing
\* of the first call is retained.
C7_SimulateIdempotent ==
  \A i, j \in 1..Len(results) :
    results[i].strategy_type = results[j].strategy_type =>
      /\ results[i].trades = results[j].trades
      /\ results[i].portfolio = results[j].portfolio

\* the same strategy type has been run twice and traded both times
C7_Witness ==
  \E i, j \in 1..Len(results) :
    /\ i < j
    /\ results[i].strategy_type = results[j].strategy_type
    /\ Len(results[j].trades) >= 1


(***************************************************************************)
(* run_backtest as one call, the form the batch sweep uses it in.          *)
(***************************************************************************)
Raise == [exception |-> "raised"]

\* strategy.execute(data, self.config)
ExecuteStrategy(kind, rows, cfg) ==
  IF kind = "lump_sum" THEN LumpSumExecute(create_strategy(kind, NoStrategy), rows, cfg)
  ELSE DcaExecute(create_strategy(kind, NoStrategy), rows, cfg)

\* the dictionary run_backtest returns
BacktestResult(kind, rows, s, cfg) ==
  [ strategy_type |-> kind,
    trades |-> s.trades,
    portfolio |-> s.portfolio,
    daily_returns |-> calculate_daily_returns(rows, s, cfg) ]

RunLoaded(rows, cfg, kind) ==
  IF kind = "lump_sum" /\ MonthData(rows, cfg.start_year, cfg.start_month) = <<>>
  THEN Raise
  ELSE BacktestResult(kind, rows, ExecuteStrategy(kind, rows, cfg), cfg)

run_backtest(file, cfg, kind) == RunLoaded(load_data(file), cfg, kind)

\* LumpSumVsDcaConfig() followed by set_analysis_params
DefaultConfig ==
  [ start_year |-> BaseYear, start_month |-> 1, investment_period_years |-> 10,
    dca_months |-> 60, initial_capital |-> InitialCapital ]

set_analysis_params(cfg, start_year, start_month, investment_period_years, dca_months) ==
  [ cfg EXCEPT !.start_year = start_year, !.start_month = start_month,
               !.investment_period_years = investment_period_years,
               !.dca_months = dca_months ]

\* run_single_backtest_silent: the result row, or None when anything raised
None == [none |-> TRUE]

\* the result row built from the two frames of daily returns
SilentRow(start_year, start_month, investment_period_years, ld, dd) ==
  [ start_year |-> start_year,
    start_month |-> start_month,
    period |-> <<start_year, start_month>>,
    end_period |-> <<start_year + investment_period_years, start_month>>,
    lump_sum_return |-> total_return(LastRow(ld).current_value, LastRow(ld).invested_amount),
    lump_sum_cagr |-> Cagr(LastRow(ld).current_value, LastRow(ld).invested_amount, Len(ld)),
    lump_sum_mdd |-> MinDrawdown(ld, Len(ld)),
    lump_sum_final_value |-> LastRow(ld).current_value,
    dca_return |-> total_return(LastRow(dd).current_value, LastRow(dd).invested_amount),
    dca_cagr |-> Cagr(LastRow(dd).current_value, LastRow(dd).invested_amount, Len(dd)),
    dca_mdd |-> MinDrawdown(dd, Len(dd)),
    dca_final_value |-> LastRow(dd).current_value,
    return_difference |->
      NumSub(total_return(LastRow(ld).current_value, LastRow(ld).invested_amount),
             total_return(LastRow(dd).current_value, LastRow(dd).invested_amount)),
    value_difference |-> QSub(LastRow(ld).current_value, LastRow(dd).current_value) ]

\* try: ... except Exception: return None
SilentResult(start_year, start_month, investment_period_years, lump, dca) ==
  IF lump = Raise THEN None
  ELSE IF lump.daily_returns = <<>> \/ dca.daily_returns = <<>> THEN None
  ELSE SilentRow(start_year, start_month, investment_period_years,
                 lump.daily_returns, dca.daily_returns)

run_single_backtest_silent(file, start_year, start_month, investment_period_years, dca_months) ==
  SilentResult(start_year, start_month, investment_period_years,
    run_backtest(file, set_analysis_params(DefaultConfig, start_year, start_month,
                                           investment_period_years, dca_months), "lump_sum"),
    run_backtest(file, set_analysis_params(DefaultConfig, start_year, start_month,
                                           investment_period_years, dca_months), "dca"))


(***************************************************************************)
(* ProbabilisticBacktester.  cagr, mdd and sharpe of a ScenarioResult are  *)
(* not represented.                                                        *)
(***************************************************************************)
MinScenarioRows == 120
TotalAmount == 60000
Percent == 100

\* current_date + relativedelta(months=1)
AddMonth(dt) ==
  IF dt.month + 1 > MonthsPerYear THEN MkDate(dt.year + 1, 1, dt.day)
  ELSE MkDate(dt.year, dt.month + 1, dt.day)

RECURSIVE AddMonths(_, _)
AddMonths(dt, n) == IF n = 0 THEN dt ELSE AddMonths(AddMonth(dt), n - 1)

\* a loop condition that lets end_limit itself through
ThroughEndLimit(cur, end_limit) == DateLe(cur, end_limit)

\* generate_scenarios: while current_date < end_limit
BeforeEndLimit(cur, end_limit) == DateLt(cur, end_limit)

\* price_data[(price_data.index >= start_date) & (price_data.index <= end_date)]
ScenarioData(rows, start_date, end_date) ==
  SelectSeq(rows, LAMBDA r : DateLe(start_date, r.Date) /\ DateLe(r.Date, end_date))

\* (final_value / invested - 1) * 100
PercentReturn(final_value, invested) ==
  QMul(QSub(QDiv(final_value, invested), Q(1)), Q(Percent))

LumpSumResult(shares, final_value, total_amount) ==
  [ final_value |-> final_value,
    return |-> PercentReturn(final_value, Q(total_amount)),
    shares |-> shares ]

LumpSumShares(rows, cfg) == QDiv(Q(cfg.total_amount), rows[1].Open)

_run_lump_sum(rows, cfg) ==
  LumpSumResult(LumpSumShares(rows, cfg),
                QMul(LumpSumShares(rows, cfg), LastRow(rows).Close),
                cfg.total_amount)

\* total_shares after "for month in range(min(investment_period_months, len(data)))"
RECURSIVE DcaShares(_, _, _)
DcaShares(rows, monthly_amount, n) ==
  IF n = 0 THEN Zero
  ELSE QAdd(DcaShares(rows, monthly_amount, n - 1), QDiv(monthly_amount, rows[n].Open))

Min(a, b) == IF a < b THEN a ELSE b

DcaResult(total_shares, total_invested, final_value) ==
  [ final_value |-> final_value,
    return |-> PercentReturn(final_value, total_invested),
    total_invested |-> total_invested,
    shares |-> total_shares,
    avg_price |-> IF QLt(Zero, total_shares) THEN QDiv(total_invested, total_shares) ELSE Zero ]

DcaPurchases(rows, monthly_amount, n) ==
  DcaResult(DcaShares(rows, monthly_amount, n),
            QMul(Q(n), monthly_amount),
            QMul(DcaShares(rows, monthly_amount, n), LastRow(rows).Close))

_run_dca(rows, cfg) ==
  DcaPurchases(rows,
               QDiv(Q(cfg.total_amount), Q(cfg.investment_period_months)),
               Min(cfg.investment_period_months, Len(rows)))

\* a comparison that gives a tie to the lump sum
WinnerTieToLumpSum(lump_sum_return, dca_return) ==
  IF QLe(dca_return, lump_sum_return) THEN "lump_sum" ELSE "dca"

\* winner = "lump_sum" if lump_sum_result['return'] > dca_result['return'] else "dca"
Winner(lump_sum_return, dca_return) ==
  IF QLt(dca_return, lump_sum_return) THEN "lump_sum" ELSE "dca"

ScenarioResult(start_date, end_date, scenario_data, lump_sum_result, dca_result) ==
  [ start_date |-> DateStr(start_date),
    end_date |-> DateStr(end_date),
    lump_sum_return |-> lump_sum_result.return,
    dca_return |-> dca_result.return,
    lump_sum_final_value |-> lump_sum_result.final_value,
    dca_final_value |-> dca_result.final_value,
    winner |-> Winner(lump_sum_result.return, dca_result.return),
    return_difference |-> QSub(lump_sum_result.return, dca_result.return),
    dca_avg_price |-> dca_result.avg_price,
    dca_total_shares |-> dca_result.shares,
    start_price |-> scenario_data[1].Open,
    end_price |-> LastRow(scenario_data).Close ]

RunScenarioData(scenario_data, start_date, end_date, cfg) ==
  IF Len(scenario_data) < MinScenarioRows THEN Raise
  ELSE ScenarioResult(start_date, end_date, scenario_data,
                      _run_lump_sum(scenario_data, cfg), _run_dca(scenario_data, cfg))

run_single_scenario(rows, start_date, end_date, cfg) ==
  RunScenarioData(ScenarioData(rows, start_date, end_date), start_date, end_date, cfg)

(***************************************************************************)
(* ProbabilisticBacktester.get_summary_statistics: the basic statistics.   *)
(* The winner labels "lump_sum" and "dca" stand for the two Korean labels  *)
(* of the source.  The standard deviations (square roots) are not          *)
(* represented.                                                            *)
(***************************************************************************)
RatePercent == 100

\* a rate cut off after its first decimal
RoundDown1(x) == Norm((10 * x[1]) \div x[2], 10)

\* round(x, 1) for x >= 0: the nearest tenth, a tie goes to the even tenth
Round1(x) ==
  IF 2 * ((10 * x[1]) % x[2]) > x[2]
     \/ (2 * ((10 * x[1]) % x[2]) = x[2] /\ ((10 * x[1]) \div x[2]) % 2 = 1)
  THEN Norm(((10 * x[1]) \div x[2]) + 1, 10)
  ELSE Norm((10 * x[1]) \div x[2], 10)

\* sum(1 for s in self.scenarios if s.winner == "lump_sum")
LumpSumWins(ss) == Cardinality({ i \in 1..Len(ss) : ss[i].winner = "lump_sum" })

\* round(wins / total_scenarios * 100, 1)
WinRate(wins, total_scenarios) ==
  Round1(QMul(QDiv(Q(wins), Q(total_scenarios)), Q(RatePercent)))

BasicStats(total_scenarios, lump_sum_wins, dca_wins) ==
  [ total_scenarios |-> total_scenarios,
    lump_sum_wins |-> lump_sum_wins,
    dca_wins |-> dca_wins,
    lump_sum_win_rate |-> WinRate(lump_sum_wins, total_scenarios),
    dca_win_rate |-> WinRate(dca_wins, total_scenarios) ]

\* round(x, 2): the nearest hundredth, a tie goes to the even hundredth
Round2(x) ==
  IF 2 * ((100 * x[1]) % x[2]) > x[2]
     \/ (2 * ((100 * x[1]) % x[2]) = x[2] /\ ((100 * x[1]) \div x[2]) % 2 = 1)
  THEN Norm(((100 * x[1]) \div x[2]) + 1, 100)
  ELSE Norm((100 * x[1]) \div x[2], 100)

\* the sum np.mean takes over [s.<field> for s in self.scenarios]
RECURSIVE SumField(_, _, _)
SumField(ss, field, n) ==
  IF n = 0 THEN Zero ELSE QAdd(SumField(ss, field, n - 1), ss[n][field])

\* round(np.mean([s.<field> for s in self.scenarios]), 2)
MeanField(ss, field) == Round2(QDiv(SumField(ss, field, Len(ss)), Q(Len(ss))))

\* max([s.<field> for s in self.scenarios]) over the first n scenarios
RECURSIVE MaxField(_, _, _)
MaxField(ss, field, n) ==
  IF n = 1 THEN ss[1][field] ELSE QMax(MaxField(ss, field, n - 1), ss[n][field])

QMin(a, b) == IF QLt(b, a) THEN b ELSE a

\* min([s.<field> for s in self.scenarios]) over the first n scenarios
RECURSIVE MinField(_, _, _)
MinField(ss, field, n) ==
  IF n = 1 THEN ss[1][field] ELSE QMin(MinField(ss, field, n - 1), ss[n][field])

ReturnStats(ss) ==
  [ lump_sum_mean_return |-> MeanField(ss, "lump_sum_return"),
    dca_mean_return |-> MeanField(ss, "dca_return"),
    mean_return_difference |-> MeanField(ss, "return_difference") ]

ExtremeStats(ss) ==
  [ lump_sum_max_return |-> Round2(MaxField(ss, "lump_sum_return", Len(ss))),
    lump_sum_min_return |-> Round2(MinField(ss, "lump_sum_return", Len(ss))),
    dca_max_return |-> Round2(MaxField(ss, "dca_return", Len(ss))),
    dca_min_return |-> Round2(MinField(ss, "dca_return", Len(ss))),
    max_return_difference |-> Round2(MaxField(ss, "return_difference", Len(ss))),
    min_return_difference |-> Round2(MinField(ss, "return_difference", Len(ss))) ]

\* a choice of the extreme scenario that takes the scenario run last
LastScenario(ss, field) == Len(ss)

\* max(self.scenarios, key=lambda x: x.<field>): the first scenario with the largest key
BestScenario(ss, field) ==
  CHOOSE i \in 1..Len(ss) :
    /\ \A j \in 1..Len(ss) : QLe(ss[j][field], ss[i][field])
    /\ \A j \in 1..(i - 1) : QLt(ss[j][field], ss[i][field])

\* min(self.scenarios, key=lambda x: x.<field>): the first scenario with the smallest key
WorstScenario(ss, field) ==
  CHOOSE i \in 1..Len(ss) :
    /\ \A j \in 1..Len(ss) : QLe(ss[i][field], ss[j][field])
    /\ \A j \in 1..(i - 1) : QLt(ss[i][field], ss[j][field])

\* {"start date": s.start_date, "return": s.<field>}
ExtremeEntry(s, field) == [ start_date |-> s.start_date, return |-> s[field] ]

ExtremeScenarios(ss) ==
  [ best_lump_sum |-> ExtremeEntry(ss[BestScenario(ss, "lump_sum_return")], "lump_sum_return"),
    worst_lump_sum |-> ExtremeEntry(ss[WorstScenario(ss, "lump_sum_return")], "lump_sum_return"),
    best_dca |-> ExtremeEntry(ss[BestScenario(ss, "dca_return")], "dca_return"),
    worst_dca |-> ExtremeEntry(ss[WorstScenario(ss, "dca_return")], "dca_return") ]

\* "if not self.scenarios: return {}"
EmptyStats == [ total_scenarios |-> 0 ]

get_summary_statistics(ss) ==
  IF ss = <<>> THEN EmptyStats
  ELSE BasicStats(Len(ss), LumpSumWins(ss), Len(ss) - LumpSumWins(ss))
         @@ ReturnStats(ss) @@ ExtremeStats(ss) @@ ExtremeScenarios(ss)

(***************************************************************************)
(* run_batch: while current_date <= end_date                               *)
(***************************************************************************)
UpToEndDate(cur, end_date) == DateLe(cur, end_date)

(***************************************************************************)
(* The universe of sweeps.                                                 *)
(***************************************************************************)
MaxSweepMonths == 3
MaxDataMonths == 13
RowsPerMonth == 10

Patterns == {"flat", "rise", "fall", "saw"}

OpenAt(pattern, t) ==
  CASE pattern = "flat" -> 2
    [] pattern = "rise" -> 1 + (t \div 40)
    [] pattern = "fall" -> 6 - (t \div 40)
    [] pattern = "saw"  -> 1 + (t % 3)

CloseAt(pattern, t) ==
  CASE pattern = "flat" -> 2
    [] pattern = "rise" -> 1 + ((t + 20) \div 40)
    [] pattern = "fall" -> 5 - (t \div 40)
    [] pattern = "saw"  -> 1 + ((t + 1) % 3)

\* a frame as InvestmentBacktester.load_data returns it: indexed by date, sorted
PriceFrame(first_month, n_months, pattern) ==
  [ k \in 1..(n_months * RowsPerMonth) |->
      LET t == k - 1
          mi == first_month + (t \div RowsPerMonth)
      IN [ Date |-> MkDate(BaseYear + (mi \div MonthsPerYear), (mi % MonthsPerYear) + 1,
                           (t % RowsPerMonth) + 1),
           Open |-> Q(OpenAt(pattern, t)),
           Close |-> Q(CloseAt(pattern, t)) ] ]

PriceFrames ==
  { PriceFrame(f, n, p) : f \in {0, 1}, n \in 11..MaxDataMonths, p \in Patterns }

\* ScenarioConfig(): the sweep from 1972-01 to 2015-01
DefaultScenarioConfig ==
  [ total_amount |-> TotalAmount, investment_period_months |-> 60,
    analysis_period_years |-> 10,
    start_year |-> 1972, start_month |-> 1, end_year |-> 2015, end_month |-> 1 ]

ScenarioConfigs ==
  { DefaultScenarioConfig } \cup
  { [ total_amount |-> TotalAmount,
      investment_period_months |-> ipm,
      analysis_period_years |-> 1,
      start_year |-> BaseYear, start_month |-> 1,
      end_year |-> e.year, end_month |-> e.month ] :
    ipm \in 1..MaxDca,
    e \in { AddMonths(MkDate(BaseYear, 1, 1), k) : k \in 0..MaxSweepMonths } }

BatchConfigs ==
  { [ start_year |-> sm[1], start_month |-> sm[2],
      end_year |-> AddMonths(MkDate(sm[1], sm[2], 1), k).year,
      end_month |-> AddMonths(MkDate(sm[1], sm[2], 1), k).month,
      investment_period_years |-> 1,
      dca_months |-> dm ] :
    sm \in StartMonths, dm \in 1..MaxDca, k \in 0..(MaxSweepMonths - 1) }

InitSweep ==
  /\ RiskIdle
  /\ config = DefaultConfig
  /\ columns = AllColumns
  /\ RunIdle
  /\ driver \in {"prob", "batch"}
  /\ csv \in IF driver = "batch" THEN CsvFiles ELSE { <<>> }
  /\ price_data \in IF driver = "prob" THEN PriceFrames ELSE { <<>> }
  /\ sweep_config \in IF driver = "prob" THEN ScenarioConfigs ELSE BatchConfigs
  /\ sweep_pc = "init"
  /\ scenario_list = <<>>
  /\ sweep_idx = 0
  /\ scenarios = <<>>
  /\ successful_scenarios = 0
  /\ failed_scenarios = 0
  /\ report = <<>>
  /\ current_date = <<>>
  /\ summary = <<>>

runVars == <<columns, pc, strategy_type, data, strategy, daily_returns, results, raised,
             metrics, error>>

(***************************************************************************)
(* ProbabilisticBacktester.run_all_scenarios.                              *)
(***************************************************************************)
\* run_all_scenarios, called on a new analyzer or again after a sweep, calls
\* generate_scenarios: current_date = datetime(start_year, start_month, 1)
ProbStart ==
  /\ driver = "prob"
  /\ sweep_pc \in {"init", "done", "summarised"}
  /\ current_date' = MkDate(sweep_config.start_year, sweep_config.start_month, 1)
  /\ scenario_list' = <<>>
  /\ sweep_pc' = "gen"
  /\ UNCHANGED <<csv, config, runVars, riskVars, summary, driver, sweep_config, price_data, sweep_idx,
                 scenarios, successful_scenarios, failed_scenarios, report>>

\* one iteration of the while loop of generate_scenarios
ProbGenerate ==
  /\ driver = "prob"
  /\ sweep_pc = "gen"
  /\ BeforeEndLimit(current_date, MkDate(sweep_config.end_year, sweep_config.end_month, 1))
  /\ scenario_list' = Append(scenario_list,
        [ start_date |-> current_date,
          end_date |-> AddYears(current_date, sweep_config.analysis_period_years) ])
  /\ current_date' = AddMonth(current_date)
  /\ UNCHANGED <<csv, config, runVars, riskVars, summary, driver, sweep_config, price_data, sweep_pc, sweep_idx,
                 scenarios, successful_scenarios, failed_scenarios, report>>

\* the sweep begun without "self.scenarios = []"
ProbGeneratedKeeping ==
  /\ driver = "prob"
  /\ sweep_pc = "gen"
  /\ ~BeforeEndLimit(current_date, MkDate(sweep_config.end_year, sweep_config.end_month, 1))
  /\ successful_scenarios' = 0
  /\ failed_scenarios' = 0
  /\ sweep_idx' = 1
  /\ sweep_pc' = "loop"
  /\ UNCHANGED <<csv, config, runVars, riskVars, summary, driver, sweep_config, price_data, scenario_list,
                 scenarios, report, current_date>>

\* return scenarios; self.scenarios = []; the counters start at 0
ProbGenerated ==
  /\ driver = "prob"
  /\ sweep_pc = "gen"
  /\ ~BeforeEndLimit(current_date, MkDate(sweep_config.end_year, sweep_config.end_month, 1))
  /\ scenarios' = <<>>
  /\ successful_scenarios' = 0
  /\ failed_scenarios' = 0
  /\ sweep_idx' = 1
  /\ sweep_pc' = "loop"
  /\ UNCHANGED <<csv, config, runVars, riskVars, summary, driver, sweep_config, price_data, scenario_list,
                 report, current_date>>

\* one iteration, the try block runs to its end
ProbScenarioOk ==
  /\ driver = "prob"
  /\ sweep_pc = "loop"
  /\ sweep_idx <= Len(scenario_list)
  /\ LET sc == scenario_list[sweep_idx]
         result == run_single_scenario(price_data, sc.start_date, sc.end_date, sweep_config)
     IN /\ result # Raise
        /\ scenarios' = Append(scenarios, result)
        /\ successful_scenarios' = successful_scenarios + 1
  /\ sweep_idx' = sweep_idx + 1
  /\ UNCHANGED <<csv, config, runVars, riskVars, summary, driver, sweep_config, price_data, sweep_pc,
                 scenario_list, failed_scenarios, report,
                 current_date>>

\* one iteration whose exception leaves the loop
ProbScenarioUncaught ==
  /\ driver = "prob"
  /\ sweep_pc = "loop"
  /\ sweep_idx <= Len(scenario_list)
  /\ LET sc == scenario_list[sweep_idx]
     IN run_single_scenario(price_data, sc.start_date, sc.end_date, sweep_config) = Raise
  /\ report' = [successful |-> successful_scenarios, failed |-> failed_scenarios]
  /\ sweep_pc' = "done"
  /\ UNCHANGED <<csv, config, runVars, riskVars, summary, driver, sweep_config, price_data, scenario_list,
                 sweep_idx, scenarios, successful_scenarios, failed_scenarios,
                 current_date>>

\* one iteration, run_single_scenario raised: except Exception
ProbScenarioFail ==
  /\ driver = "prob"
  /\ sweep_pc = "loop"
  /\ sweep_idx <= Len(scenario_list)
  /\ LET sc == scenario_list[sweep_idx]
     IN run_single_scenario(price_data, sc.start_date, sc.end_date, sweep_config) = Raise
  /\ failed_scenarios' = failed_scenarios + 1
  /\ sweep_idx' = sweep_idx + 1
  /\ UNCHANGED <<csv, config, runVars, riskVars, summary, driver, sweep_config, price_data, sweep_pc,
                 scenario_list, scenarios, successful_scenarios, report,
                 current_date>>

\* print(f"... 성공 {successful_scenarios}개, 실패 {failed_scenarios}개")
ProbFinish ==
  /\ driver = "prob"
  /\ sweep_pc = "loop"
  /\ sweep_idx > Len(scenario_list)
  /\ report' = [successful |-> successful_scenarios, failed |-> failed_scenarios]
  /\ sweep_pc' = "done"
  /\ UNCHANGED <<csv, config, runVars, riskVars, summary, driver, sweep_config, price_data, scenario_list,
                 sweep_idx, scenarios, successful_scenarios, failed_scenarios,
                 current_date>>

\* stats = backtester.get_summary_statistics(), called once the sweep is over
GetSummaryStatistics ==
  /\ driver = "prob"
  /\ sweep_pc \in {"done", "summarised"}
  /\ summary' = get_summary_statistics(scenarios)
  /\ sweep_pc' = "summarised"
  /\ UNCHANGED <<csv, config, runVars, riskVars, driver, sweep_config, price_data, scenario_list,
                 sweep_idx, scenarios, successful_scenarios, failed_scenarios, report,
                 current_date>>

(***************************************************************************)
(* run_batch.                                                              *)
(***************************************************************************)
\* current_date = datetime(START_YEAR, START_MONTH, 1); test_periods = []
BatchStart ==
  /\ driver = "batch"
  /\ sweep_pc = "init"
  /\ current_date' = MkDate(sweep_config.start_year, sweep_config.start_month, 1)
  /\ scenario_list' = <<>>
  /\ sweep_pc' = "gen"
  /\ UNCHANGED <<csv, config, runVars, riskVars, summary, driver, sweep_config, price_data, sweep_idx,
                 scenarios, successful_scenarios, failed_scenarios, report>>

\* one iteration of the while loop that fills test_periods
BatchGenerate ==
  /\ driver = "batch"
  /\ sweep_pc = "gen"
  /\ UpToEndDate(current_date, MkDate(sweep_config.end_year, sweep_config.end_month, 1))
  /\ scenario_list' = Append(scenario_list, <<current_date.year, current_date.month>>)
  /\ current_date' = AddMonth(current_date)
  /\ UNCHANGED <<csv, config, runVars, riskVars, summary, driver, sweep_config, price_data, sweep_pc, sweep_idx,
                 scenarios, successful_scenarios, failed_scenarios, report>>

\* results = []
BatchGenerated ==
  /\ driver = "batch"
  /\ sweep_pc = "gen"
  /\ ~UpToEndDate(current_date, MkDate(sweep_config.end_year, sweep_config.end_month, 1))
  /\ scenarios' = <<>>
  /\ sweep_idx' = 1
  /\ sweep_pc' = "loop"
  /\ UNCHANGED <<csv, config, runVars, riskVars, summary, driver, sweep_config, price_data, scenario_list,
                 successful_scenarios, failed_scenarios, report, current_date>>

\* one iteration, "if result:" holds
BatchScenarioOk ==
  /\ driver = "batch"
  /\ sweep_pc = "loop"
  /\ sweep_idx <= Len(scenario_list)
  /\ LET ym == scenario_list[sweep_idx]
         result == run_single_backtest_silent(csv, ym[1], ym[2],
                     sweep_config.investment_period_years, sweep_config.dca_months)
     IN /\ result # None
        /\ scenarios' = Append(scenarios, result)
  /\ sweep_idx' = sweep_idx + 1
  /\ UNCHANGED <<csv, config, runVars, riskVars, summary, driver, sweep_config, price_data, sweep_pc,
                 scenario_list, successful_scenarios, failed_scenarios, report,
                 current_date>>

\* one iteration, run_single_backtest_silent returned None
BatchScenarioFail ==
  /\ driver = "batch"
  /\ sweep_pc = "loop"
  /\ sweep_idx <= Len(scenario_list)
  /\ LET ym == scenario_list[sweep_idx]
     IN run_single_backtest_silent(csv, ym[1], ym[2],
          sweep_config.investment_period_years, sweep_config.dca_months) = None
  /\ sweep_idx' = sweep_idx + 1
  /\ UNCHANGED <<csv, config, runVars, riskVars, summary, driver, sweep_config, price_data, sweep_pc,
                 scenario_list, scenarios, successful_scenarios, failed_scenarios, report,
                 current_date>>

\* print(f"... {len(results)}/{len(test_periods)}개 성공")
BatchFinish ==
  /\ driver = "batch"
  /\ sweep_pc = "loop"
  /\ sweep_idx > Len(scenario_list)
  /\ report' = [successful |-> Len(scenarios), total |-> Len(scenario_list)]
  /\ sweep_pc' = "done"
  /\ UNCHANGED <<csv, config, runVars, riskVars, summary, driver, sweep_config, price_data, scenario_list,
                 sweep_idx, scenarios, successful_scenarios, failed_scenarios,
                 current_date>>

NextSweep ==
  \/ ProbStart
  \/ ProbGenerate
  \/ ProbGenerated
  \/ ProbScenarioOk
  \/ ProbScenarioFail
  \/ ProbFinish
  \/ GetSummaryStatistics
  \/ BatchStart
  \/ BatchGenerate
  \/ BatchGenerated
  \/ BatchScenarioOk
  \/ BatchScenarioFail
  \/ BatchFinish

SpecSweep == InitSweep /\ [][NextSweep]_vars


(***************************************************************************)
(* Claims about the sweeps.                                                *)
(***************************************************************************)

C9_SweepAccounting ==
  sweep_pc = "done" =>
    LET n == Len(scenario_list)
        rowsIn(sc) == Cardinality({ i \in 1..Len(price_data) :
                        /\ DateLe(sc.start_date, price_data[i].Date)
                        /\ DateLe(price_data[i].Date, sc.end_date) })
        succeeds(k) == IF driver = "prob"
                       THEN rowsIn(scenario_list[k]) >= MinScenarioRows
                       ELSE \E d \in DOMAIN csv : /\ d.year = scenario_list[k][1]
                                                  /\ d.month = scenario_list[k][2]
        ok == { k \in 1..n : succeeds(k) }
        nth(j) == CHOOSE k \in ok : Cardinality({ i \in ok : i < k }) = j - 1
        startOf(r) == IF driver = "prob" THEN r.start_date ELSE r.period
        listStart(k) == IF driver = "prob" THEN DateStr(scenario_list[k].start_date)
                        ELSE scenario_list[k]
    IN /\ sweep_idx = n + 1
       /\ Len(scenarios) = Cardinality(ok)
       /\ \A j \in 1..Len(scenarios) : startOf(scenarios[j]) = listStart(nth(j))
       /\ report.successful = Len(scenarios)
       /\ driver = "prob" => report.successful + report.failed = n
       /\ driver = "batch" => report.total = n

\* a finished sweep in which a scenario failed and a later one succeeded
C9_Witness ==
  /\ sweep_pc = "done"
  /\ driver = "prob"
  /\ report.failed >= 1
  /\ Len(scenarios) >= 1
  /\ scenarios[1].start_date # DateStr(scenario_list[1].start_date)

\* C10: a sweep over a window of exactly one month yields, for its start
\* month, the same figures as the single-run pipeline (run_backtest followed
\* by calculate_metrics) with the equivalent configuration.
C10_SweepEqualsSingleRun ==
  ( /\ sweep_pc = "done"
    /\ MkDate(sweep_config.end_year, sweep_config.end_month, 1) =
         AddMonth(MkDate(sweep_config.start_year, sweep_config.start_month, 1))
    /\ Len(scenarios) >= 1 ) =>
    LET file == IF driver = "batch" THEN csv
                ELSE [ d \in { price_data[i].Date : i \in 1..Len(price_data) } |->
                         LET i == CHOOSE i \in 1..Len(price_data) : price_data[i].Date = d
                         IN price_data[i].Close[1] ]
        cfg == IF driver = "batch"
               THEN set_analysis_params(DefaultConfig, sweep_config.start_year,
                      sweep_config.start_month, sweep_config.investment_period_years,
                      sweep_config.dca_months)
               ELSE [ start_year |-> sweep_config.start_year,
                      start_month |-> sweep_config.start_month,
                      investment_period_years |-> sweep_config.analysis_period_years,
                      dca_months |-> sweep_config.investment_period_months,
                      initial_capital |-> sweep_config.total_amount ]
        lump == calculate_metrics(run_backtest(file, cfg, "lump_sum"))
        dca == calculate_metrics(run_backtest(file, cfg, "dca"))
        r == scenarios[1]
        first == IF driver = "batch" THEN r.period = <<cfg.start_year, cfg.start_month>>
                 ELSE r.start_date = <<cfg.start_year, cfg.start_month, 1>>
    IN first =>
         /\ r.lump_sum_return = lump.final_return
         /\ r.dca_return = dca.final_return
         /\ r.return_difference = NumSub(lump.final_return, dca.final_return)
         /\ driver = "batch" =>
              /\ r.lump_sum_cagr = lump.cagr
              /\ r.dca_cagr = dca.cagr
              /\ r.lump_sum_mdd = lump.mdd
              /\ r.dca_mdd = dca.mdd
         /\ driver = "prob" =>
              /\ r.dca_avg_price = dca.average_price
              /\ r.dca_total_shares = dca.total_shares
              /\ (r.winner = "lump_sum") <=> QLt(dca.final_return, lump.final_return)

\* C11: for a non-empty collection of successful scenario results the summary
\* counts every result once, lump_sum_wins + dca_wins = number of results with
\* each count matching its label, and the two reported win rates (in percent)
\* add up to 100.
C11_WinCountsAndRates ==
  (sweep_pc = "summarised" /\ scenarios # <<>>) =>
    /\ summary.total_scenarios = Len(scenarios)
    /\ summary.lump_sum_wins + summary.dca_wins = Len(scenarios)
    /\ summary.lump_sum_wins =
         Cardinality({ i \in 1..Len(scenarios) : scenarios[i].winner = "lump_sum" })
    /\ summary.dca_wins =
         Cardinality({ i \in 1..Len(scenarios) : scenarios[i].winner = "dca" })
    /\ QAdd(summary.lump_sum_win_rate, summary.dca_win_rate) = Q(100)

\* both strategies have won, and the rates had to be rounded
C11_Witness ==
  /\ sweep_pc = "summarised"
  /\ summary.total_scenarios >= 3
  /\ summary.lump_sum_wins >= 1
  /\ summary.dca_wins >= 1
  /\ (1000 * summary.lump_sum_wins) % summary.total_scenarios # 0

(***************************************************************************)
(* Claims about calculate_metrics.                                         *)
(***************************************************************************)

\* C12: the mdd returned by calculate_metrics equals the minimum of drawdown
\* over all valuation records, the value the batch sweep reports for the same
\* records, and is therefore non-positive.
C12_MddIsMinDrawdown ==
  \A i \in 1..Len(metrics) :
    results[i].daily_returns # <<>> =>
      /\ metrics[i].mdd = MinDrawdown(results[i].daily_returns, Len(results[i].daily_returns))
      /\ QLe(metrics[i].mdd, Zero)

\* C13: calculate_metrics never yields an undefined final_return or cagr, and
\* cagr is 0 whenever years <= 0 or the last record's invested_amount <= 0.
C13_CagrDefined ==
  \A i \in 1..Len(metrics) :
    /\ metrics[i].final_return # NaN
    /\ metrics[i].cagr.ratio # NaN
    /\ ( \/ QLe(metrics[i].investment_period_years, Zero)
         \/ QLe(metrics[i].total_invested, Zero) ) =>
         (metrics[i].cagr = ZeroCagr \/ metrics[i].cagr.ratio = Q(1))

\* C14: for an empty frame of valuation records calculate_metrics returns a
\* dictionary of the twelve metrics in which every one is 0.
C14_EmptyMetricsAllZero ==
  \A i \in 1..Len(metrics) :
    results[i].daily_returns = <<>> =>
      /\ DOMAIN metrics[i] =
           { "final_return", "cagr", "mdd", "sharpe_ratio", "volatility", "win_rate",
             "total_invested", "final_value", "average_price", "total_shares",
             "investment_period_days", "investment_period_years" }
      /\ metrics[i].final_return = Zero
      /\ metrics[i].cagr = ZeroCagr
      /\ metrics[i].mdd = Zero
      /\ metrics[i].sharpe_ratio = Zero
      /\ metrics[i].volatility = Zero
      /\ metrics[i].win_rate = Zero
      /\ metrics[i].total_invested = Zero
      /\ metrics[i].final_value = Zero
      /\ metrics[i].average_price = Zero
      /\ metrics[i].total_shares = Zero
      /\ metrics[i].investment_period_days = 0
      /\ metrics[i].investment_period_years = Zero

\* the metrics of a run whose window held no trading day have been computed
C14_Witness ==
  \E i \in 1..Len(metrics) :
    /\ results[i].daily_returns = <<>>
    /\ results[i].strategy_type = "dca"
    /\ csv # <<>>

(***************************************************************************)
(* Claims about errors, windows and valuation before the first trade.      *)
(***************************************************************************)

\* C15: when the price series has no trading day in the start month, a
\* LumpSum run raises the ValueError of the empty start month out of
\* run_backtest: it never reaches the valuation, returns no result, and its
\* ledger stays empty with total_invested = 0 and total_shares = 0.
C15_NoStartDataRaises ==
  ( /\ strategy.kind = "lump_sum"
    /\ { d \in DOMAIN csv : d.year = config.start_year /\ d.month = config.start_month } = {} ) =>
    /\ pc \notin {"executed", "valued", "returned"}
    /\ strategy.trades = <<>>
    /\ strategy.portfolio.total_invested = Zero
    /\ strategy.portfolio.total_shares = Zero
    /\ pc = "idle" => (error = "ValueError" /\ raised >= 1)
    /\ \A i \in 1..Len(results) : results[i].strategy_type # "lump_sum"

\* a LumpSum run on a non-empty series without a day in the start month has raised
C15_Witness ==
  /\ pc = "idle"
  /\ error = "ValueError"
  /\ strategy.kind = "lump_sum"
  /\ strategy.trades = <<>>
  /\ csv # <<>>
  /\ { d \in DOMAIN csv : d.year = config.start_year /\ d.month = config.start_month } = {}

\* C18: a price file lacking one of the columns Date, Open, High, Low, Close,
\* Volume is rejected at load time: no load succeeds, no strategy is created
\* and no result is returned.
C18_MissingColumnsRaiseAtLoad ==
  columns # AllColumns =>
    /\ pc = "idle"
    /\ data = <<>>
    /\ strategy = NoStrategy
    /\ results = <<>>

\* C20: every valuation record dated before the first trade executes has
\* invested_amount, shares, current_value, total_return, peak_return and
\* drawdown all exactly 0.
C20_ZeroBeforeFirstTrade ==
  pc = "valued" =>
    \A k \in 1..Len(daily_returns) :
      (\A t \in 1..Len(strategy.trades) :
         DateLt(daily_returns[k].date, ToDate(strategy.trades[t].date))) =>
        /\ daily_returns[k].invested_amount = Zero
        /\ daily_returns[k].shares = Zero
        /\ daily_returns[k].current_value = Zero
        /\ daily_returns[k].total_return = Zero
        /\ daily_returns[k].peak_return = Zero
        /\ daily_returns[k].drawdown = Zero

\* a valuation record exists on a day on which no trade has executed yet
C20_Witness ==
  /\ pc = "valued"
  /\ \E k \in 1..Len(daily_returns) :
       \A t \in 1..Len(strategy.trades) :
         DateLt(daily_returns[k].date, ToDate(strategy.trades[t].date))

\* C16: scenario slicing uses the half-open window [start, start + years): a
\* row of the price data is in the scenario's slice iff start <= date < end.
C16_HalfOpenWindow ==
  (driver = "prob" /\ sweep_pc = "loop" /\ sweep_idx > 1) =>
    LET sc == scenario_list[sweep_idx - 1]
        sd == ScenarioData(price_data, sc.start_date, sc.end_date)
    IN /\ \A j \in 1..Len(sd) :
            DateLe(sc.start_date, sd[j].Date) /\ DateLt(sd[j].Date, sc.end_date)
       /\ Len(sd) = Cardinality({ k \in 1..Len(price_data) :
                                   /\ DateLe(sc.start_date, price_data[k].Date)
                                   /\ DateLt(price_data[k].Date, sc.end_date) })

\* C17: a scenario whose window holds fewer trading days than 120 per year of
\* the horizon produces no scenario result.
C17_MinimumRowsPerYear ==
  (driver = "prob" /\ sweep_pc = "loop" /\ sweep_idx > 1) =>
    LET sc == scenario_list[sweep_idx - 1]
        sd == ScenarioData(price_data, sc.start_date, sc.end_date)
    IN Len(sd) < 120 * sweep_config.analysis_period_years =>
         \/ scenarios = <<>>
         \/ scenarios[Len(scenarios)].start_date # DateStr(sc.start_date)

\* C19: every scenario result has return_difference = lump_sum_return -
\* dca_return; the winner is the lump sum exactly when lump_sum_return >
\* dca_return, that is when return_difference > 0, and DCA otherwise, a tie
\* included.
C19_WinnerAndDifference ==
  \A i \in 1..Len(scenarios) :
    IF driver = "prob"
    THEN /\ scenarios[i].return_difference =
              QSub(scenarios[i].lump_sum_return, scenarios[i].dca_return)
         /\ scenarios[i].winner \in {"lump_sum", "dca"}
         /\ (scenarios[i].winner = "lump_sum") <=>
              QLt(scenarios[i].dca_return, scenarios[i].lump_sum_return)
         /\ (scenarios[i].winner = "lump_sum") <=> QLt(Zero, scenarios[i].return_difference)
         /\ scenarios[i].lump_sum_return = scenarios[i].dca_return =>
              scenarios[i].winner = "dca"
    ELSE IF scenarios[i].lump_sum_return = NaN \/ scenarios[i].dca_return = NaN
         THEN scenarios[i].return_difference = NaN
         ELSE scenarios[i].return_difference =
                QSub(scenarios[i].lump_sum_return, scenarios[i].dca_return)

\* a tie between a lump sum and a DCA of several installments has been labelled
C19_Witness ==
  /\ driver = "prob"
  /\ sweep_config.investment_period_months >= 2
  /\ \E i \in 1..Len(scenarios) :
       /\ scenarios[i].lump_sum_return = scenarios[i].dca_return
       /\ scenarios[i].return_difference = Zero
       /\ scenarios[i].winner = "dca"

(***************************************************************************)
(* Claims about the valuation records and the ledger.                      *)
(***************************************************************************)

\* C23: at every valuation record, invested_amount and shares are the sums of
\* amount and shares over the ledger trades dated inside the window on or before
\* the record's date; both change only on a trade date and never decrease; and
\* with shares held, current_value = shares x price and
\* total_return = (current_value - invested_amount) / invested_amount.
C23_RunningTotals ==
  pc = "valued" =>
    LET start_date == MkDate(config.start_year, config.start_month, 1)
        end_date == AddYears(start_date, config.investment_period_years)
        trades == strategy.trades
        Counted(t, k) ==
          /\ DateLe(start_date, ToDate(trades[t].date))
          /\ DateLt(ToDate(trades[t].date), end_date)
          /\ DateLe(ToDate(trades[t].date), daily_returns[k].date)
        RECURSIVE SumAmount(_, _)
        SumAmount(t, k) ==
          IF t = 0 THEN Zero
          ELSE QAdd(SumAmount(t - 1, k), IF Counted(t, k) THEN trades[t].amount ELSE Zero)
        RECURSIVE SumShares(_, _)
        SumShares(t, k) ==
          IF t = 0 THEN Zero
          ELSE QAdd(SumShares(t - 1, k), IF Counted(t, k) THEN trades[t].shares ELSE Zero)
        IsTradeDate(k) ==
          \E t \in 1..Len(trades) : ToDate(trades[t].date) = daily_returns[k].date
        PrevInvested(k) == IF k = 1 THEN Zero ELSE daily_returns[k - 1].invested_amount
        PrevShares(k) == IF k = 1 THEN Zero ELSE daily_returns[k - 1].shares
    IN \A k \in 1..Len(daily_returns) :
         LET r == daily_returns[k]
         IN /\ r.invested_amount = SumAmount(Len(trades), k)
            /\ r.shares = SumShares(Len(trades), k)
            /\ (r.invested_amount # PrevInvested(k) \/ r.shares # PrevShares(k))
                 => IsTradeDate(k)
            /\ QLe(PrevInvested(k), r.invested_amount)
            /\ QLe(PrevShares(k), r.shares)
            /\ QLt(Zero, r.shares) =>
                 /\ r.current_value = QMul(r.shares, r.price)
                 /\ r.total_return =
                      QDiv(QSub(r.current_value, r.invested_amount), r.invested_amount)

\* a DCA run valued: a second trade raises the totals on a later record, and some
\* record falls on a day without a trade
C23_Witness ==
  /\ pc = "valued"
  /\ strategy.kind = "dca"
  /\ Len(strategy.trades) >= 2
  /\ \E k \in 2..Len(daily_returns) :
       /\ QLt(Zero, daily_returns[k - 1].invested_amount)
       /\ QLt(daily_returns[k - 1].invested_amount, daily_returns[k].invested_amount)
  /\ \E k \in 2..Len(daily_returns) :
       /\ daily_returns[k].invested_amount = daily_returns[k - 1].invested_amount
       /\ QLt(Zero, daily_returns[k].shares)

(***************************************************************************)
(* BaseStrategy on its own: a strategy object and calls of add_trade, with *)
(* the arguments the strategies pass (shares = amount / price).            *)
(***************************************************************************)
TradeAmounts == {1, 2}

InitLedger ==
  /\ RiskIdle
  /\ csv = <<>>
  /\ columns = AllColumns
  /\ config = DefaultConfig
  /\ pc = "idle"
  /\ strategy_type \in {"lump_sum", "dca"}
  /\ data = <<>>
  /\ strategy = NewStrategy(strategy_type)
  /\ daily_returns = <<>>
  /\ results = <<>>
  /\ raised = 0
  /\ metrics = <<>>
  /\ error = "none"
  /\ SweepIdle

\* self.add_trade(date=..., price=..., amount=..., shares=amount / price)
AddTrade(date, price, amount) ==
  /\ Len(strategy.trades) < MaxTrades
  /\ strategy' = add_trade(strategy, DateStr(date), Q(price), Q(amount),
                           QDiv(Q(amount), Q(price)))
  /\ UNCHANGED <<csv, columns, config, pc, strategy_type, data, daily_returns, results,
                 raised, error>>
  /\ UNCHANGED <<metrics, sweepVars, riskVars>>

NextLedger ==
  \E date \in CandidateDates, price \in Prices, amount \in TradeAmounts :
    AddTrade(date, price, amount)

SpecLedger == InitLedger /\ [][NextLedger]_vars

\* C28: after any sequence of add_trade calls, total_invested and total_shares
\* are the sums of the recorded trades' amounts and shares, average_price is
\* total_invested / total_shares once shares are held and 0 before the first
\* trade; the trade list keeps the order of the calls and its earlier entries
\* never change.
C28_LedgerTotals ==
  /\ [](LET trades == strategy.trades
            RECURSIVE LedgerAmount(_)
            LedgerAmount(t) ==
              IF t = 0 THEN Zero ELSE QAdd(LedgerAmount(t - 1), trades[t].amount)
            RECURSIVE LedgerShares(_)
            LedgerShares(t) ==
              IF t = 0 THEN Zero ELSE QAdd(LedgerShares(t - 1), trades[t].shares)
        IN /\ strategy.portfolio.total_invested = LedgerAmount(Len(trades))
           /\ strategy.portfolio.total_shares = LedgerShares(Len(trades))
           /\ QLt(Zero, strategy.portfolio.total_shares) =>
                strategy.portfolio.average_price =
                  QDiv(strategy.portfolio.total_invested, strategy.portfolio.total_shares)
           /\ trades = <<>> => strategy.portfolio.average_price = Zero)
  /\ [][ /\ Len(strategy'.trades) = Len(strategy.trades) + 1
         /\ SubSeq(strategy'.trades, 1, Len(strategy.trades)) = strategy.trades ]_vars

\* three trades recorded, at two different prices and with a date used twice
C28_Witness ==
  /\ Len(strategy.trades) = 3
  /\ strategy.trades[1].price # strategy.trades[2].price
  /\ strategy.trades[1].date = strategy.trades[3].date
  /\ strategy.portfolio.average_price # strategy.trades[3].price

\* C29: in a single run with dca_months <= 12 x investment_period_years, every
\* executed trade is dated inside the valuation window, and the last valuation
\* record's invested_amount and shares are the ledger's total_invested and
\* total_shares, which the metrics report next to that record's value.
C29_LedgerMatchesValuation ==
  (pc = "valued" /\ config.dca_months <= MonthsPerYear * config.investment_period_years) =>
    /\ \A t \in 1..Len(strategy.trades) :
         /\ DateLe(MkDate(config.start_year, config.start_month, 1),
                   ToDate(strategy.trades[t].date))
         /\ DateLt(ToDate(strategy.trades[t].date),
                   AddYears(MkDate(config.start_year, config.start_month, 1),
                            config.investment_period_years))
    /\ daily_returns = <<>> => strategy.trades = <<>>
    /\ daily_returns # <<>> =>
         /\ LastRow(daily_returns).invested_amount = strategy.portfolio.total_invested
         /\ LastRow(daily_returns).shares = strategy.portfolio.total_shares
         /\ MetricsOf(daily_returns, strategy.portfolio).total_invested
              = strategy.portfolio.total_invested
         /\ MetricsOf(daily_returns, strategy.portfolio).total_shares
              = LastRow(daily_returns).shares

\* a DCA run of three installments valued, the first bought on the window's first day
C29_Witness ==
  /\ pc = "valued"
  /\ strategy.kind = "dca"
  /\ config.dca_months = 3
  /\ Len(strategy.trades) = 3
  /\ ToDate(strategy.trades[1].date) = MkDate(config.start_year, config.start_month, 1)
  /\ LastRow(daily_returns).invested_amount = Q(config.initial_capital)

\* C24: in the rolling sweep of ProbabilisticBacktester every successful scenario
\* holds what the single-run simulation yields on its sliced window: the DCA leg
\* buys total_amount / investment_period_months on the first trading day of each
\* successive calendar month, and the lump sum buys once at the close of the
\* window's first trading day.
C24_ScenarioRerunsSimulation ==
  (driver = "prob" /\ scenarios # <<>>) =>
    LET r == scenarios[Len(scenarios)]
        slice == ScenarioData(price_data, ToDate(r.start_date), ToDate(r.end_date))
        cfg == [ start_year |-> r.start_date[1], start_month |-> r.start_date[2],
                 investment_period_years |-> sweep_config.analysis_period_years,
                 dca_months |-> sweep_config.investment_period_months,
                 initial_capital |-> sweep_config.total_amount ]
    IN /\ r.dca_total_shares = DcaExecute(NewStrategy("dca"), slice, cfg).portfolio.total_shares
       /\ r.lump_sum_final_value =
            QMul(LumpSumExecute(NewStrategy("lump_sum"), slice, cfg).portfolio.total_shares,
                 LastRow(slice).Close)

\* C25: computing the summary statistics leaves the scenario collection as it
\* was, a call on the same collection returns the same statistics again, and
\* each reported best / worst scenario is a scenario of the collection whose
\* return is the largest / smallest return of that strategy in the collection.
C25_SummaryPureReduction ==
  /\ []((sweep_pc = "summarised" /\ scenarios # <<>>) =>
          /\ summary = get_summary_statistics(scenarios)
          /\ \A e \in { <<summary.best_lump_sum, "lump_sum_return", TRUE>>,
                         <<summary.worst_lump_sum, "lump_sum_return", FALSE>>,
                         <<summary.best_dca, "dca_return", TRUE>>,
                         <<summary.worst_dca, "dca_return", FALSE>> } :
               /\ \E i \in 1..Len(scenarios) :
                    /\ scenarios[i].start_date = e[1].start_date
                    /\ scenarios[i][e[2]] = e[1].return
               /\ \A i \in 1..Len(scenarios) :
                    IF e[3] THEN QLe(scenarios[i][e[2]], e[1].return)
                    ELSE QLe(e[1].return, scenarios[i][e[2]]))
  /\ [][sweep_pc' = "summarised" => scenarios' = scenarios]_vars

\* statistics computed over at least two scenarios whose lump-sum returns differ
C25_Witness ==
  /\ sweep_pc = "summarised"
  /\ Len(scenarios) >= 2
  /\ summary.best_lump_sum.return # summary.worst_lump_sum.return
  /\ summary.best_lump_sum.start_date # scenarios[Len(scenarios)].start_date
  /\ summary.best_dca.return # summary.worst_dca.return

\* C26: the summary statistics are the same for every order of the scenario
\* results: exchanging two neighbouring results changes no count, rate, mean or
\* extreme, nor the start date of a best or worst scenario.
C26_OrderIndependent ==
  (sweep_pc = "summarised" /\ Len(scenarios) >= 2) =>
    \A i \in 1..(Len(scenarios) - 1) :
      get_summary_statistics(
        [ k \in 1..Len(scenarios) |->
            IF k = i THEN scenarios[i + 1]
            ELSE IF k = i + 1 THEN scenarios[i] ELSE scenarios[k] ]) = summary

\* C30: whenever a sweep of run_all_scenarios ends, also one that follows earlier
\* sweeps on the same analyzer, the scenario list holds exactly the successful
\* scenarios of that sweep, each once and in increasing start-date order, and
\* nothing of an earlier sweep.
C30_SweepStartsEmpty ==
  (driver = "prob" /\ sweep_pc = "done") =>
    LET Result(n) == run_single_scenario(price_data, scenario_list[n].start_date,
                                         scenario_list[n].end_date, sweep_config)
    IN /\ Len(scenarios) =
            Cardinality({ n \in 1..Len(scenario_list) :
              Len(ScenarioData(price_data, scenario_list[n].start_date,
                               scenario_list[n].end_date)) >= MinScenarioRows })
       /\ \A i \in 1..Len(scenarios) :
            \E n \in 1..Len(scenario_list) :
              /\ DateStr(scenario_list[n].start_date) = scenarios[i].start_date
              /\ scenarios[i] = Result(n)
       /\ \A i \in 1..(Len(scenarios) - 1) :
            DateLt(ToDate(scenarios[i].start_date), ToDate(scenarios[i + 1].start_date))

\* a sweep that follows an earlier, summarised sweep has ended with two results
C30_Witness ==
  /\ driver = "prob"
  /\ sweep_pc = "done"
  /\ summary # <<>>
  /\ Len(scenarios) >= 2
  /\ failed_scenarios >= 1

(***************************************************************************)
(* PerformanceAnalyzer._calculate_risk_metrics (analysis/metrics.py).      *)
(* A ratio whose denominator is a standard deviation is kept as its        *)
(* numerator and the variance under the square root; var_5, cvar_5,        *)
(* skewness and kurtosis are not represented.                              *)
(***************************************************************************)
\* risk_free_rate = 2.0
RiskFreeRate == Q(2)

\* returns[returns < 0]
NegativeReturns(rs) == SelectSeq(rs, LAMBDA x : QLt(x, Zero))

RECURSIVE SeriesSum(_, _)
SeriesSum(xs, n) == IF n = 0 THEN Zero ELSE QAdd(SeriesSum(xs, n - 1), xs[n])

\* the sum of the squared deviations from the mean m
RECURSIVE SquaredDeviations(_, _, _)
SquaredDeviations(xs, m, n) ==
  IF n = 0 THEN Zero
  ELSE QAdd(SquaredDeviations(xs, m, n - 1), QMul(QSub(xs[n], m), QSub(xs[n], m)))

\* the square of Series.std(): the sample variance (ddof = 1), nan below two values
SampleVariance(xs) ==
  IF Len(xs) < 2 THEN NaN
  ELSE QDiv(SquaredDeviations(xs, QDiv(SeriesSum(xs, Len(xs)), Q(Len(xs))), Len(xs)),
            Q(Len(xs) - 1))

\* "std * np.sqrt(252) * 100 > 0": false for nan and for 0
DeviationPositive(variance) == variance # NaN /\ QLt(Zero, variance)

\* the values a ratio takes: 0, float('inf'), or excess / deviation
ZeroRatio == [kind |-> "zero", excess |-> Zero, variance |-> Zero]

InfRatio == [kind |-> "inf", excess |-> Zero, variance |-> Zero]

RiskRatio(excess, variance) == [kind |-> "ratio", excess |-> excess, variance |-> variance]

\* (annualized_return - risk_free_rate) / deviation if deviation > 0 else 0
GuardedRatio(ann, variance) ==
  IF DeviationPositive(variance) THEN RiskRatio(QSub(ann, RiskFreeRate), variance)
  ELSE ZeroRatio

\* a sortino ratio that is 0 whenever the downside deviation is not positive
sortino_without_sentinel(rs, ann) == GuardedRatio(ann, SampleVariance(NegativeReturns(rs)))

\* the sortino ratio of _calculate_risk_metrics
sortino_ratio(rs, ann) ==
  IF Len(NegativeReturns(rs)) > 0
  THEN GuardedRatio(ann, SampleVariance(NegativeReturns(rs)))
  ELSE IF QLt(RiskFreeRate, ann) THEN InfRatio ELSE ZeroRatio

_calculate_risk_metrics(rs, ann) ==
  [ volatility |-> SampleVariance(rs),
    sharpe_ratio |-> GuardedRatio(ann, SampleVariance(rs)),
    sortino_ratio |-> sortino_ratio(rs, ann) ]

\* the daily returns: portfolio_value.pct_change().fillna(0), so the first is 0
ReturnValues == { Q(-2), Q(-1), Zero, Q(1) }

ReturnSeries ==
  UNION { { rs \in [1..n -> ReturnValues] : rs[1] = Zero } : n \in 1..MaxReturns }

AnnualizedReturns == { Q(1), Q(2), Q(3) }

InitRisk ==
  /\ csv = <<>>
  /\ columns = AllColumns
  /\ config = DefaultConfig
  /\ RunIdle
  /\ SweepIdle
  /\ returns \in ReturnSeries
  /\ annualized_return \in AnnualizedReturns
  /\ risk = <<>>

\* metrics['risk'] = PerformanceAnalyzer._calculate_risk_metrics(returns, annualized_return)
CalculateRiskMetrics ==
  /\ risk = <<>>
  /\ risk' = _calculate_risk_metrics(returns, annualized_return)
  /\ UNCHANGED <<csv, columns, config, runVars, sweepVars, returns, annualized_return>>

NextRisk == CalculateRiskMetrics

SpecRisk == InitRisk /\ [][NextRisk]_vars

\* C27: with no negative daily return the sortino ratio is +infinity when the
\* annualized return exceeds the risk-free rate and 0 otherwise; with negative
\* returns whose deviation is zero or undefined it is 0; every call returns a
\* value.
C27_SortinoSentinels ==
  risk # <<>> =>
    LET negative == { i \in 1..Len(returns) : QLt(returns[i], Zero) }
    IN /\ risk.sortino_ratio.kind \in {"zero", "inf", "ratio"}
       /\ negative = {} =>
            risk.sortino_ratio =
              IF QLt(RiskFreeRate, annualized_return) THEN InfRatio ELSE ZeroRatio
       /\ (negative # {}
             /\ (Cardinality(negative) < 2
                  \/ \A i, j \in negative : returns[i] = returns[j])) =>
            risk.sortino_ratio = ZeroRatio
       /\ (\E i, j \in negative : returns[i] # returns[j]) =>
            /\ risk.sortino_ratio.kind = "ratio"
            /\ risk.sortino_ratio.excess = QSub(annualized_return, RiskFreeRate)

\* a series of several returns, none negative, with the annualized return above
\* the risk-free rate: the ratio is infinite
C27_Witness ==
  /\ risk # <<>>
  /\ Len(returns) >= 3
  /\ \A i \in 1..Len(returns) : ~QLt(returns[i], Zero)
  /\ \E i \in 1..Len(returns) : QLt(Zero, returns[i])
  /\ QLt(RiskFreeRate, annualized_return)
  /\ risk.sortino_ratio = InfRatio

(***************************************************************************)
(* The single run on a year of daily records: a record on each of the      *)
(* first SeriesRows days of every month of the base year, the price flat,  *)
(* rising or falling from one record to the next.                          *)
(***************************************************************************)
SeriesCapital == 12000
FlatPrice == 100
RisingBase == 2
FallingBase == 1

Shapes == {"flat", "rising", "falling"}

\* the closing price of record k of n: constant, or one unit up or down a record
SeriesPrice(shape, k, n) ==
  CASE shape = "flat" -> FlatPrice
    [] shape = "rising" -> RisingBase + (k - 1)
    [] shape = "falling" -> FallingBase + (n - k)

SeriesFile(shape) ==
  [ d \in { MkDate(BaseYear, m, day) : m \in 1..MonthsPerYear, day \in 1..SeriesRows } |->
      SeriesPrice(shape, (d.month - 1) * SeriesRows + d.day, MonthsPerYear * SeriesRows) ]

SeriesConfig(dca_months) ==
  [ start_year |-> BaseYear, start_month |-> 1, investment_period_years |-> 1,
    dca_months |-> dca_months, initial_capital |-> SeriesCapital ]

\* the runs: twelve or two installments on the flat series, two or three on the
\* others (their prices keep the exact arithmetic within machine integers)
SeriesRuns ==
  { <<SeriesFile("flat"), SeriesConfig(MonthsPerYear)>>,
    <<SeriesFile("flat"), SeriesConfig(2)>>,
    <<SeriesFile("rising"), SeriesConfig(2)>>,
    <<SeriesFile("rising"), SeriesConfig(3)>>,
    <<SeriesFile("falling"), SeriesConfig(2)>>,
    <<SeriesFile("falling"), SeriesConfig(3)>> }

InitSeries ==
  /\ RiskIdle
  /\ \E run \in SeriesRuns : csv = run[1] /\ config = run[2]
  /\ columns = AllColumns
  /\ RunIdle
  /\ SweepIdle

\* the steps of run_backtest a well-formed file with data in the start month takes
NextSeries ==
  \/ \E kind \in {"lump_sum", "dca"} : LoadData(kind)
  \/ CreateStrategy
  \/ ExecuteLumpSum
  \/ ExecuteDca
  \/ CalculateDailyReturns
  \/ ReturnResult
  \/ CalculateMetrics

SpecSeries == InitSeries /\ [][NextSeries]_vars

\* C21: on a flat price series (100 on every record of the year) with a capital
\* of 12000, one year and twelve installments, both strategies report
\* final_return = 0, mdd = 0 and cagr = 0 (the power of the ratio 1), and the
\* DCA ledger's average_price is 100.
C21_FlatSeriesZero ==
  (\A d \in DOMAIN csv : csv[d] = FlatPrice) =>
    \A i \in 1..Len(metrics) :
      /\ metrics[i].final_return = Zero
      /\ metrics[i].mdd = Zero
      /\ metrics[i].cagr.ratio = Q(1)
      /\ metrics[i].total_invested = Q(SeriesCapital)
      /\ results[i].strategy_type = "dca" =>
           /\ results[i].portfolio.average_price = Q(FlatPrice)
           /\ metrics[i].average_price = Q(FlatPrice)

\* the flat series run with twelve installments, all executed, and with the lump
\* sum, both with their metrics computed
C21_Witness ==
  /\ \A d \in DOMAIN csv : csv[d] = FlatPrice
  /\ config.dca_months = MonthsPerYear
  /\ config.initial_capital = SeriesCapital
  /\ Len(metrics) >= 2
  /\ \E i, j \in 1..Len(metrics) :
       /\ results[i].strategy_type = "lump_sum"
       /\ results[j].strategy_type = "dca"
       /\ Len(results[j].trades) = MonthsPerYear
       /\ Len(results[j].daily_returns) = MonthsPerYear * SeriesRows

\* C22: on a strictly increasing price series, with at least two installments
\* all executed inside the window, the lump sum's final return is strictly
\* greater than DCA's; on a strictly decreasing series DCA's is strictly
\* greater than the lump sum's.
C22_MonotoneSeries ==
  \A i, j \in 1..Len(metrics) :
    ( /\ results[i].strategy_type = "lump_sum"
      /\ results[j].strategy_type = "dca"
      /\ config.dca_months >= 2
      /\ Len(results[j].trades) = config.dca_months
      /\ \A t \in 1..Len(results[j].trades) :
           \E k \in 1..Len(results[j].daily_returns) :
             results[j].daily_returns[k].date = ToDate(results[j].trades[t].date) ) =>
      /\ (\A d, e \in DOMAIN csv : DateLt(d, e) => csv[d] < csv[e]) =>
           QLt(metrics[j].final_return, metrics[i].final_return)
      /\ (\A d, e \in DOMAIN csv : DateLt(d, e) => csv[d] > csv[e]) =>
           QLt(metrics[i].final_return, metrics[j].final_return)

\* a rising series run with both strategies, three installments: the lump sum is ahead
C22_Witness ==
  /\ \A d, e \in DOMAIN csv : DateLt(d, e) => csv[d] < csv[e]
  /\ config.dca_months = 3
  /\ \E i, j \in 1..Len(metrics) :
       /\ results[i].strategy_type = "lump_sum"
       /\ results[j].strategy_type = "dca"
       /\ Len(results[j].trades) = 3
       /\ QLt(Zero, metrics[j].final_return)
       /\ QLt(metrics[j].final_return, metrics[i].final_return)

====
